---------------------------- MODULE Spec2Model ----------------------------
(***************************************************************************)
(* A model of the ext-php-rs C shim (src/src/wrapper.c, src/src/wrapper.h) *)
(* over the Zend Engine primitives it forwards to.                         *)
(*                                                                         *)
(* Three specifications share the variables below:                         *)
(*   SpecStr   the known-valid-UTF-8 mark on a zend_string                 *)
(*   SpecSapi  SAPI startup / per-thread init / shutdown and the           *)
(*             thread-local global accessors                               *)
(*   SpecTry   the zend_try / zend_first_try / zend_bailout wrappers and   *)
(*             the embed block                                             *)
(* Each one leaves the variables of the other two at their initial value.  *)
(***************************************************************************)
EXTENDS Integers, Sequences, FiniteSets, TLC

VARIABLES
    build,      \* the compile-time configuration of the shim
    strings,    \* SpecStr: the zend_string headers
    lastStr,    \* SpecStr: the last call of a UTF-8 mark function
    tsrm,       \* SpecSapi: the thread-safe resource manager's state
    proc,       \* SpecSapi: process-wide state touched by the lifecycle calls
    lastSapi,   \* SpecSapi: the last lifecycle or accessor call
    stack,      \* SpecTry: per thread, the active wrapper frames
    bailout,    \* SpecTry: per thread, EG(bailout): a frame index, 0 = NULL
    status,     \* SpecTry: "running" or "exited" (the process ended)
    lastTry     \* SpecTry: the last wrapper return or bailout

vars == <<build, strings, lastStr, tsrm, proc, lastSapi, stack, bailout, status, lastTry>>

(***************************************************************************)
(* Bounds of the model.                                                    *)
(***************************************************************************)
MaxStrings == 1
MaxRefcount == 2
NThreads == 2
MaxStartups == 1
MaxFrames == 2
MaxVal == 1

(***************************************************************************)
(* Bit arithmetic on the 32-bit gc type_info word.                         *)
(***************************************************************************)
RECURSIVE BitAnd(_, _)
BitAnd(a, b) ==
    IF a = 0 \/ b = 0 THEN 0
    ELSE (IF a % 2 = 1 /\ b % 2 = 1 THEN 1 ELSE 0) + 2 * BitAnd(a \div 2, b \div 2)

RECURSIVE BitOr(_, _)
BitOr(a, b) ==
    IF a = 0 THEN b
    ELSE IF b = 0 THEN a
    ELSE (IF a % 2 = 1 \/ b % 2 = 1 THEN 1 ELSE 0) + 2 * BitOr(a \div 2, b \div 2)

(***************************************************************************)
(* The engine's flag layout, as the macros of wrapper.c:11-19 read it.     *)
(* IS_STR_VALID_UTF8 moved between engine versions (bit 9, later bit 5):   *)
(* the configuration carries the value of the headers compiled against.    *)
(***************************************************************************)
IS_STRING == 6
GC_NOT_COLLECTABLE == 16
IS_STR_INTERNED == 64
IS_STR_PERSISTENT == 128
IS_STR_PERMANENT == 256
GC_FLAGS_MASK == 1008
Utf8Bits == {32, 512}

\* GC_FLAGS(p): the flag bits of the type_info word (GC_FLAGS_SHIFT is 0)
GC_FLAGS(z) == BitAnd(z.type_info, GC_FLAGS_MASK)

\* GC_ADD_FLAGS(p, flags): type_info |= flags << GC_FLAGS_SHIFT
GC_ADD_FLAGS(z, flags) == [z EXCEPT !.type_info = BitOr(z.type_info, flags)]

\* ZSTR_IS_INTERNED(s)
ZSTR_IS_INTERNED(z) == BitAnd(GC_FLAGS(z), IS_STR_INTERNED) # 0

\* bool ext_php_rs_is_known_valid_utf8(const zend_string *zs)
ext_php_rs_is_known_valid_utf8(z) ==
    BitAnd(GC_FLAGS(z), build.IS_STR_VALID_UTF8) # 0

\* A set_known_valid_utf8 without the interned test.
Mutant_set_known_valid_utf8(z) == GC_ADD_FLAGS(z, build.IS_STR_VALID_UTF8)

\* void ext_php_rs_set_known_valid_utf8(zend_string *zs)
ext_php_rs_set_known_valid_utf8(z) ==
    IF ~ZSTR_IS_INTERNED(z) THEN GC_ADD_FLAGS(z, build.IS_STR_VALID_UTF8) ELSE z

\* zend_string_init: a fresh string, reference count 1
ext_php_rs_zend_string_init(persistent) ==
    [alive |-> TRUE, refcount |-> 1,
     type_info |-> BitOr(BitOr(IS_STRING, GC_NOT_COLLECTABLE),
                         IF persistent THEN IS_STR_PERSISTENT ELSE 0)]

FreedString == [alive |-> FALSE, refcount |-> 0, type_info |-> 0]

\* zend_string_release: interned strings are left alone, others lose a reference
ext_php_rs_zend_string_release(z) ==
    IF ZSTR_IS_INTERNED(z) THEN z
    ELSE IF z.refcount = 1 THEN FreedString
    ELSE [z EXCEPT !.refcount = z.refcount - 1]

StrIds == 1..MaxStrings

\* An interned string as the engine hands it out, marked or not.
InternedString(marked) ==
    [alive |-> TRUE, refcount |-> 1,
     type_info |-> BitOr(BitOr(BitOr(IS_STRING, GC_NOT_COLLECTABLE),
                               BitOr(IS_STR_INTERNED, IS_STR_PERMANENT)),
                         IF marked THEN build.IS_STR_VALID_UTF8 ELSE 0)]

NoStrCall == [op |-> "none", zs |-> 0, old |-> FreedString, new |-> FreedString, ret |-> FALSE]

(***************************************************************************)
(* The compile-time configuration: ZTS, PHP_WIN32,                         *)
(* ZEND_ENABLE_STATIC_TSRMLS_CACHE, whether SIGPIPE and SIG_IGN are        *)
(* defined, and the value of IS_STR_VALID_UTF8.                            *)
(***************************************************************************)
Build(zts, win, static, sigpipe, utf8) ==
    [ZTS |-> zts, PHP_WIN32 |-> win, STATIC_CACHE |-> static,
     HAVE_SIGPIPE |-> sigpipe, IS_STR_VALID_UTF8 |-> utf8]

Threads == 1..NThreads
Values == 0..MaxVal     \* the void* a callback can return; 0 is NULL

\* The resource manager before tsrm_startup: no table, no thread entry.
\*   epoch     how many times tsrm_startup has run (names the table in use)
\*   tls       per thread, tsrm_tls_get(): the epoch of its entry, 0 = NULL
\*   cache     per thread, the _tsrm_ls_cache the shim's accessors read
\*   heap      the tsrm_tls_entry blocks allocated and not freed, <<epoch, thread>>
IdleTsrm ==
    [started |-> FALSE, epoch |-> 0,
     tls |-> [t \in Threads |-> 0],
     cache |-> [t \in Threads |-> 0],
     in_main_thread |-> [t \in Threads |-> FALSE],
     is_thread_shutdown |-> [t \in Threads |-> FALSE],
     heap |-> {}]

\* The process before any lifecycle call.
IdleProc == [sigpipe |-> "default", zend_signal |-> FALSE, startups |-> 0, state |-> "running"]

NoSapiCall ==
    [op |-> "none", thread |-> 0, calls |-> << >>,
     pre |-> [tsrm |-> IdleTsrm, proc |-> IdleProc],
     ret |-> [obj |-> <<"NULL", 0, 0, 0>>, off |-> 0]]

NoFrame == [fn |-> "none", orig |-> 0, entry |-> 0, before |-> 0, log |-> << >>]

NoTryEvent ==
    [op |-> "none", thread |-> 0, fn |-> "none", depth |-> 0, raisedAt |-> 0,
     ret |-> "none", value |-> 0, result |-> 0, log |-> << >>, frame |-> NoFrame,
     pre |-> [stack |-> [t \in Threads |-> << >>], bailout |-> [t \in Threads |-> 0]]]

(***************************************************************************)
(* SpecStr: the UTF-8 mark.                                                *)
(***************************************************************************)
InitStr ==
    /\ \E u \in Utf8Bits : build = Build(FALSE, FALSE, FALSE, TRUE, u)
    /\ \E f \in [StrIds -> {"free", "interned", "interned_marked"}] :
          strings = [i \in StrIds |->
                        IF f[i] = "free" THEN FreedString
                        ELSE InternedString(f[i] = "interned_marked")]
    /\ lastStr = NoStrCall
    /\ tsrm = IdleTsrm /\ proc = IdleProc /\ lastSapi = NoSapiCall
    /\ stack = [t \in Threads |-> << >>]
    /\ bailout = [t \in Threads |-> 0]
    /\ status = "running"
    /\ lastTry = NoTryEvent

StrFrame == UNCHANGED <<build, tsrm, proc, lastSapi, stack, bailout, status, lastTry>>

\* zend_string *ext_php_rs_zend_string_init(str, len, persistent)
StringInit(i, persistent) ==
    /\ ~strings[i].alive
    /\ strings' = [strings EXCEPT ![i] = ext_php_rs_zend_string_init(persistent)]
    /\ UNCHANGED lastStr
    /\ StrFrame

\* void ext_php_rs_zend_string_release(zend_string *zs)
StringRelease(i) ==
    /\ strings[i].alive
    /\ strings' = [strings EXCEPT ![i] = ext_php_rs_zend_string_release(strings[i])]
    /\ UNCHANGED lastStr
    /\ StrFrame

\* Another holder of the string takes a reference (zend_string_copy in the engine).
StringAddRef(i) ==
    /\ strings[i].alive
    /\ ~ZSTR_IS_INTERNED(strings[i])
    /\ strings[i].refcount < MaxRefcount
    /\ strings' = [strings EXCEPT ![i].refcount = @ + 1]
    /\ UNCHANGED lastStr
    /\ StrFrame

\* A call of ext_php_rs_is_known_valid_utf8 on a live string.
IsKnownValidUtf8(i) ==
    /\ strings[i].alive
    /\ UNCHANGED strings
    /\ lastStr' = [op |-> "is", zs |-> i, old |-> strings[i], new |-> strings'[i],
                   ret |-> ext_php_rs_is_known_valid_utf8(strings[i])]
    /\ StrFrame

\* A call of ext_php_rs_set_known_valid_utf8 on a live string.
SetKnownValidUtf8(i) ==
    /\ strings[i].alive
    /\ strings' = [strings EXCEPT ![i] = ext_php_rs_set_known_valid_utf8(strings[i])]
    /\ lastStr' = [op |-> "set", zs |-> i, old |-> strings[i],
                   new |-> strings'[i], ret |-> FALSE]
    /\ StrFrame

NextStr ==
    \/ \E i \in StrIds, p \in BOOLEAN : StringInit(i, p)
    \/ \E i \in StrIds : StringRelease(i)
    \/ \E i \in StrIds : StringAddRef(i)
    \/ \E i \in StrIds : IsKnownValidUtf8(i)
    \/ \E i \in StrIds : SetKnownValidUtf8(i)

SpecStr == InitStr /\ [][NextStr]_vars

\* The type_info word without the UTF-8 mark bit.
OtherBits(z) == z.type_info - BitAnd(z.type_info, build.IS_STR_VALID_UTF8)

\* C10: ext_php_rs_set_known_valid_utf8 sets the mark on a non-interned string
\* (ext_php_rs_is_known_valid_utf8 is then true) and is idempotent; on an interned
\* string it changes nothing; it never clears the mark and changes no other flag
\* nor the reference count; ext_php_rs_is_known_valid_utf8 reports the mark and
\* modifies nothing.
C10_Utf8Mark ==
    /\ lastStr.op = "set" =>
          /\ ~ZSTR_IS_INTERNED(lastStr.old) => ext_php_rs_is_known_valid_utf8(lastStr.new)
          /\ ZSTR_IS_INTERNED(lastStr.old) =>
                /\ lastStr.new = lastStr.old
                /\ ext_php_rs_is_known_valid_utf8(lastStr.new)
                     = ext_php_rs_is_known_valid_utf8(lastStr.old)
          /\ ext_php_rs_set_known_valid_utf8(lastStr.new) = lastStr.new
          /\ ext_php_rs_is_known_valid_utf8(lastStr.old)
                => ext_php_rs_is_known_valid_utf8(lastStr.new)
          /\ OtherBits(lastStr.new) = OtherBits(lastStr.old)
          /\ lastStr.new.refcount = lastStr.old.refcount
          /\ lastStr.new.alive = lastStr.old.alive
    /\ lastStr.op = "is" =>
          /\ lastStr.new = lastStr.old
          /\ lastStr.ret = (BitAnd(lastStr.old.type_info, build.IS_STR_VALID_UTF8) # 0)

\* A non-interned, unmarked string has been marked.
C10_Witness ==
    /\ lastStr.op = "set"
    /\ ~ZSTR_IS_INTERNED(lastStr.old)
    /\ ~ext_php_rs_is_known_valid_utf8(lastStr.old)
    /\ ext_php_rs_is_known_valid_utf8(lastStr.new)
    /\ lastStr.old.refcount = MaxRefcount

(***************************************************************************)
(* SpecSapi: lifecycle calls and the thread-local global accessors.        *)
(*                                                                         *)
(* A pointer is an object and a byte offset into it.  The objects are the  *)
(* static globals of a non-ZTS engine, a thread's tsrm_tls_entry block     *)
(* (its header followed by the reserved fast globals) and the separately   *)
(* allocated resources an entry's storage table points to.                 *)
(***************************************************************************)
Ptr(obj, off) == [obj |-> obj, off |-> off]
NULLOBJ == <<"NULL", 0, 0, 0>>
StaticObj(name) == <<name, 0, 0, 0>>
EntryObj(e, t) == <<"tsrm_tls_entry", e, t, 0>>
ResourceObj(e, t, id) == <<"tsrm_resource", e, t, id>>

\* The engine's layout as the shim's accessors name it: three byte offsets of
\* fast globals inside the entry block, and the resource id of the file globals.
executor_globals_offset == 64
core_globals_offset == 1024
sapi_globals_offset == 2048
file_globals_id == 12

\* tsrm_get_ls_cache() without the static cache, TSRMLS_CACHE with it
Mutant_TsrmLsCache(ts, t) ==
    LET e == IF build.STATIC_CACHE THEN ts.cache[1] ELSE ts.tls[1]
    IN  IF e = 0 THEN NULLOBJ ELSE EntryObj(e, 1)

TsrmLsCache(ts, t) ==
    LET e == IF build.STATIC_CACHE THEN ts.cache[t] ELSE ts.tls[t]
    IN  IF e = 0 THEN NULLOBJ ELSE EntryObj(e, t)

\* TSRMG_FAST_BULK / TSRMG_FAST_BULK_STATIC: the cache pointer plus a byte offset
TSRMG_FAST_BULK(ts, t, offset) == Ptr(TsrmLsCache(ts, t), offset)

\* TSRMG_BULK, the engine's lookup by resource id: storage[id - 1] of the entry
TSRMG_BULK(ts, t, id) ==
    IF ts.tls[t] = 0 THEN Ptr(NULLOBJ, 0) ELSE Ptr(ResourceObj(ts.tls[t], t, id), 0)

ext_php_rs_executor_globals(ts, t) ==
    IF build.ZTS THEN TSRMG_FAST_BULK(ts, t, executor_globals_offset)
    ELSE Ptr(StaticObj("executor_globals"), 0)

ext_php_rs_process_globals(ts, t) ==
    IF build.ZTS THEN TSRMG_FAST_BULK(ts, t, core_globals_offset)
    ELSE Ptr(StaticObj("core_globals"), 0)

ext_php_rs_sapi_globals(ts, t) ==
    IF build.ZTS THEN TSRMG_FAST_BULK(ts, t, sapi_globals_offset)
    ELSE Ptr(StaticObj("sapi_globals"), 0)

ext_php_rs_file_globals(ts, t) ==
    IF build.ZTS THEN TSRMG_FAST_BULK(ts, t, file_globals_id)
    ELSE Ptr(StaticObj("file_globals"), 0)

AccessorNames == {"executor_globals", "process_globals", "sapi_globals", "file_globals"}

Accessor(name, ts, t) ==
    CASE name = "executor_globals" -> ext_php_rs_executor_globals(ts, t)
      [] name = "process_globals" -> ext_php_rs_process_globals(ts, t)
      [] name = "sapi_globals" -> ext_php_rs_sapi_globals(ts, t)
      [] name = "file_globals" -> ext_php_rs_file_globals(ts, t)

\* ---- the engine's resource manager

\* set_thread_local_storage_resource_to: the TLS slot, and the engine's own cache,
\* which is the one the shim reads unless it defines its own (PHP_WIN32).
SetThreadResource(ts, t, e) ==
    [ts EXCEPT !.tls[t] = e,
               !.cache[t] = IF build.STATIC_CACHE /\ ~build.PHP_WIN32 THEN e ELSE @]

\* tsrm_startup: a fresh key and table; the caller becomes the main thread
tsrm_startup(ts, t) ==
    [ts EXCEPT !.started = TRUE,
               !.epoch = @ + 1,
               !.tls = [u \in Threads |-> 0],
               !.in_main_thread[t] = TRUE,
               !.is_thread_shutdown[t] = FALSE]

\* ts_resource(0): the caller's entry, allocated on its first call
ts_resource(ts, t) ==
    IF ts.tls[t] # 0 THEN ts
    ELSE [SetThreadResource(ts, t, ts.epoch) EXCEPT !.heap = @ \cup {<<ts.epoch, t>>}]

\* php_tsrm_startup(): tsrm_startup, then ts_resource(0)
php_tsrm_startup(ts, t) == ts_resource(tsrm_startup(ts, t), t)

\* ZEND_TSRMLS_CACHE_UPDATE(): empty without the static cache
ZEND_TSRMLS_CACHE_UPDATE(ts, t) ==
    IF build.STATIC_CACHE THEN [ts EXCEPT !.cache[t] = ts.tls[t]] ELSE ts

\* tsrm_shutdown(): once per thread, and only the main thread frees the table
tsrm_shutdown(ts, t) ==
    IF ts.is_thread_shutdown[t] THEN ts
    ELSE IF ~ts.in_main_thread[t] THEN [ts EXCEPT !.is_thread_shutdown[t] = TRUE]
    ELSE [ts EXCEPT !.is_thread_shutdown[t] = TRUE,
                    !.started = FALSE,
                    !.heap = @ \ {<<ts.tls[u], u>> : u \in Threads},
                    !.tls = [u \in Threads |-> 0]]

\* One engine call of a lifecycle function, applied to <<tsrm, proc>>.  A call that
\* needs the resource manager while none is running is undefined behaviour.
Undefined(st) == [st EXCEPT !.proc.state = "undefined"]

ApplyCall(st, c, t) ==
    IF st.proc.state # "running" THEN st
    ELSE CASE c = "signal" -> [st EXCEPT !.proc.sigpipe = "ignored"]
           [] c = "php_tsrm_startup" -> [st EXCEPT !.tsrm = php_tsrm_startup(st.tsrm, t)]
           [] c = "ZEND_TSRMLS_CACHE_UPDATE" ->
                [st EXCEPT !.tsrm = ZEND_TSRMLS_CACHE_UPDATE(st.tsrm, t)]
           [] c = "zend_signal_startup" ->
                IF build.ZTS /\ ~st.tsrm.started THEN Undefined(st)
                ELSE [st EXCEPT !.proc.zend_signal = TRUE]
           [] c = "ts_resource" ->
                IF ~st.tsrm.started THEN Undefined(st)
                ELSE [st EXCEPT !.tsrm = ts_resource(st.tsrm, t)]
           [] c = "tsrm_shutdown" -> [st EXCEPT !.tsrm = tsrm_shutdown(st.tsrm, t)]

RECURSIVE RunCalls(_, _, _)
RunCalls(st, calls, t) ==
    IF calls = << >> THEN st
    ELSE RunCalls(ApplyCall(st, Head(calls), t), Tail(calls), t)

\* ---- the shim's lifecycle functions, as the engine calls each build compiles

\* A startup that starts signal handling before the resource manager.
Mutant_sapi_startup ==
    <<"zend_signal_startup">>
    \o (IF build.ZTS THEN <<"php_tsrm_startup">> ELSE << >>)
    \o (IF build.HAVE_SIGPIPE THEN <<"signal">> ELSE << >>)

ext_php_rs_sapi_startup ==
    (IF build.HAVE_SIGPIPE THEN <<"signal">> ELSE << >>)
    \o (IF build.ZTS
        THEN <<"php_tsrm_startup">>
             \o (IF build.PHP_WIN32 THEN <<"ZEND_TSRMLS_CACHE_UPDATE">> ELSE << >>)
        ELSE << >>)
    \o <<"zend_signal_startup">>

ext_php_rs_sapi_shutdown ==
    IF build.ZTS THEN <<"tsrm_shutdown">> ELSE << >>

\* A per-thread init that allocates whether or not the thread has an entry.
Mutant_sapi_per_thread_init ==
    IF build.ZTS THEN <<"php_tsrm_startup">> ELSE << >>

ext_php_rs_sapi_per_thread_init ==
    IF build.ZTS
    THEN <<"ts_resource">>
         \o (IF build.PHP_WIN32 THEN <<"ZEND_TSRMLS_CACHE_UPDATE">> ELSE << >>)
    ELSE << >>

SapiBuilds ==
    {Build(z, w, c, p, 32) : z \in BOOLEAN, w \in BOOLEAN, c \in BOOLEAN, p \in BOOLEAN}

InitSapi ==
    /\ build \in {b \in SapiBuilds :
                     /\ b.PHP_WIN32 => ~b.HAVE_SIGPIPE
                     /\ ~b.ZTS => ~b.STATIC_CACHE}
    /\ strings = [i \in StrIds |-> FreedString]
    /\ lastStr = NoStrCall
    /\ tsrm = IdleTsrm /\ proc = IdleProc /\ lastSapi = NoSapiCall
    /\ stack = [t \in Threads |-> << >>]
    /\ bailout = [t \in Threads |-> 0]
    /\ status = "running"
    /\ lastTry = NoTryEvent

SapiFrame == UNCHANGED <<build, strings, lastStr, stack, bailout, status, lastTry>>

\* A call of a lifecycle function on thread t: every engine call it makes, in order.
Lifecycle(op, calls, t) ==
    LET pre == [tsrm |-> tsrm, proc |-> proc]
        post == RunCalls(pre, calls, t)
    IN  /\ tsrm' = post.tsrm
        /\ proc' = [post.proc EXCEPT !.startups = IF op = "sapi_startup" THEN @ + 1 ELSE @]
        /\ lastSapi' = [op |-> op, thread |-> t, calls |-> calls, pre |-> pre,
                        ret |-> Ptr(NULLOBJ, 0)]
        /\ SapiFrame

SapiStartup(t) ==
    /\ proc.state = "running"
    /\ proc.startups < MaxStartups
    /\ Lifecycle("sapi_startup", ext_php_rs_sapi_startup, t)

SapiPerThreadInit(t) ==
    /\ proc.state = "running"
    /\ Lifecycle("sapi_per_thread_init", ext_php_rs_sapi_per_thread_init, t)

SapiShutdown(t) ==
    /\ proc.state = "running"
    /\ Lifecycle("sapi_shutdown", ext_php_rs_sapi_shutdown, t)

\* A call of one of the four accessors on thread t.
CallAccessor(name, t) ==
    /\ proc.state = "running"
    /\ lastSapi' = [op |-> name, thread |-> t, calls |-> << >>,
                    pre |-> [tsrm |-> tsrm, proc |-> proc],
                    ret |-> Accessor(name, tsrm, t)]
    /\ UNCHANGED <<tsrm, proc>>
    /\ SapiFrame

NextSapi ==
    \/ \E t \in Threads : SapiStartup(t)
    \/ \E t \in Threads : SapiPerThreadInit(t)
    \/ \E t \in Threads : SapiShutdown(t)
    \/ \E t \in Threads, name \in AccessorNames : CallAccessor(name, t)

SpecSapi == InitSapi /\ [][NextSapi]_vars

\* A thread is initialised when it holds an entry of the running resource manager:
\* the startup thread, or one that called ext_php_rs_sapi_per_thread_init.
Initialised(ts, t) == ts.started /\ ts.tls[t] # 0

\* Position of the only occurrence of call c in a call sequence, 0 when absent.
IndexOf(calls, c) ==
    IF \E i \in 1..Len(calls) : calls[i] = c
    THEN CHOOSE i \in 1..Len(calls) : calls[i] = c
    ELSE 0

Occurrences(calls, c) == Cardinality({i \in 1..Len(calls) : calls[i] = c})

FastAccessors == {"executor_globals", "process_globals", "sapi_globals"}

\* The static a non-ZTS accessor takes the address of.
StaticOf(name) == IF name = "process_globals" THEN "core_globals" ELSE name

C3_State ==
    /\ build.ZTS =>
          /\ \A t1 \in Threads, t2 \in Threads, a \in FastAccessors :
                Initialised(tsrm, t1) /\ Initialised(tsrm, t2) /\ t1 # t2 =>
                    /\ Accessor(a, tsrm, t1) # Accessor(a, tsrm, t2)
                    /\ Accessor(a, tsrm, t1).obj # Accessor(a, tsrm, t2).obj
          /\ \A t \in Threads, a \in FastAccessors :
                Initialised(tsrm, t) => Accessor(a, tsrm, t).obj = EntryObj(tsrm.tls[t], t)
          /\ lastSapi.op \in FastAccessors /\ Initialised(tsrm, lastSapi.thread) =>
                lastSapi.ret.obj = EntryObj(tsrm.tls[lastSapi.thread], lastSapi.thread)
    /\ ~build.ZTS =>
          /\ \A t \in Threads :
                /\ ext_php_rs_executor_globals(tsrm, t) = Ptr(StaticObj("executor_globals"), 0)
                /\ ext_php_rs_process_globals(tsrm, t) = Ptr(StaticObj("core_globals"), 0)
                /\ ext_php_rs_sapi_globals(tsrm, t) = Ptr(StaticObj("sapi_globals"), 0)
          /\ lastSapi.op \in FastAccessors =>
                lastSapi.ret = Ptr(StaticObj(StaticOf(lastSapi.op)), 0)

C3_Stable ==
    \A t \in Threads, a \in FastAccessors :
        (Initialised(tsrm, t) /\ Initialised(tsrm', t) /\ tsrm'.epoch = tsrm.epoch)
            => Accessor(a, tsrm', t) = Accessor(a, tsrm, t)

\* C3: in a ZTS build the executor, process and SAPI globals accessors give each
\* initialised thread its own structure (never the one of another initialised
\* thread) and keep giving it the same one while it stays initialised; in a
\* non-ZTS build they give the single static structure on every call.
C3_ThreadLocalGlobals == []C3_State /\ [][C3_Stable]_vars

\* Two threads are initialised and the second has called an accessor.
C3_Witness ==
    /\ build.ZTS /\ build.STATIC_CACHE /\ build.PHP_WIN32
    /\ Initialised(tsrm, 1) /\ Initialised(tsrm, 2)
    /\ lastSapi.op = "executor_globals" /\ lastSapi.thread = 2
    /\ lastSapi.ret = Ptr(EntryObj(tsrm.epoch, 2), executor_globals_offset)

\* C4: in a ZTS build ext_php_rs_file_globals returns the structure the engine
\* reaches by looking up file_globals_id in the calling thread's resource table;
\* in a non-ZTS build it returns the static file_globals.
C4_FileGlobals ==
    /\ build.ZTS =>
          \A t \in Threads :
              Initialised(tsrm, t) =>
                  ext_php_rs_file_globals(tsrm, t) = TSRMG_BULK(tsrm, t, file_globals_id)
    /\ ~build.ZTS =>
          \A t \in Threads :
              ext_php_rs_file_globals(tsrm, t) = Ptr(StaticObj("file_globals"), 0)

LifecycleNoOps == {"sapi_per_thread_init", "sapi_shutdown"}

\* The entry blocks of the running table that belong to thread t.
SetsOf(ts, t) == {b \in ts.heap : b[1] = ts.epoch /\ b[2] = t}

C7_NonZts ==
    (~build.ZTS /\ lastSapi.op \in LifecycleNoOps) =>
        /\ tsrm = lastSapi.pre.tsrm
        /\ proc = lastSapi.pre.proc

C7_PerThreadInit ==
    (build.ZTS /\ lastSapi.op = "sapi_per_thread_init" /\ lastSapi.pre.tsrm.started) =>
        LET t == lastSapi.thread
            pre == lastSapi.pre.tsrm
        IN  /\ proc = lastSapi.pre.proc
            /\ Cardinality(SetsOf(tsrm, t)) = 1
            /\ tsrm.tls[t] = tsrm.epoch
            /\ pre.tls[t] = 0 => tsrm.heap = pre.heap \cup {<<pre.epoch, t>>}
                                 /\ <<pre.epoch, t>> \notin pre.heap
            /\ pre.tls[t] # 0 => tsrm = pre
            /\ \A u \in Threads \ {t} :
                  /\ tsrm.tls[u] = pre.tls[u]
                  /\ tsrm.cache[u] = pre.cache[u]
                  /\ SetsOf(tsrm, u) = SetsOf(pre, u)

\* Every entry of the table in use before the call is freed and no thread keeps one.
ReleasedAll ==
    /\ \A u \in Threads : tsrm.tls[u] = 0
    /\ \A u \in Threads : <<lastSapi.pre.tsrm.tls[u], u>> \notin tsrm.heap
    /\ ~tsrm.started

TryWrappers == {"try_catch", "first_try_catch"}

EngineThreads == IF build.ZTS THEN Threads ELSE {1}

\* zend_try: JMP_BUF *__orig_bailout = EG(bailout)
zend_try(bail) == bail

\* A zend_first_try that keeps the target it finds.
Mutant_zend_first_try(bail) == bail

\* zend_first_try: EG(bailout) = NULL, then zend_try
zend_first_try(bail) == zend_try(0)

\* A zend_end_try that clears the target.
Mutant_zend_end_try(f) == 0

\* zend_catch and zend_end_try(): EG(bailout) = __orig_bailout
zend_end_try(f) == f.orig

\* A catch block that stores NULL through result.
Mutant_CaughtResult(f) == 0

\* What *result holds after the catch block: it is not assigned there.
CaughtResult(f) == f.before

\* *result = callback(ctx)
NormalResult(f, v) == v

\* A longjmp to the outermost frame.
Mutant_LongjmpTarget(bail) == IF bail = 0 THEN 0 ELSE 1

\* zend_bailout: LONGJMP(*EG(bailout), FAILURE)
LongjmpTarget(bail) == bail

\* An end of the embed block that skips the shutdown.
Mutant_PHP_EMBED_END_BLOCK(log) == log

\* PHP_EMBED_END_BLOCK(): after the try block, php_embed_shutdown()
PHP_EMBED_END_BLOCK(log) == Append(log, "php_embed_shutdown")

\* PHP_EMBED_START_BLOCK(argc, argv): php_embed_init, its result dropped, then
\* zend_first_try and the callback
PHP_EMBED_START_BLOCK(ok) ==
    <<IF ok THEN "php_embed_init SUCCESS" ELSE "php_embed_init FAILURE", "callback">>

InitTry ==
    /\ \E z \in BOOLEAN : build = Build(z, FALSE, FALSE, TRUE, 32)
    /\ strings = [i \in StrIds |-> FreedString]
    /\ lastStr = NoStrCall
    /\ tsrm = IdleTsrm /\ proc = IdleProc /\ lastSapi = NoSapiCall
    /\ stack = [t \in Threads |-> << >>]
    /\ bailout = [t \in Threads |-> 0]
    /\ status = "running"
    /\ lastTry = NoTryEvent

TryFrame == UNCHANGED <<build, strings, lastStr, tsrm, proc, lastSapi>>

Pre == [stack |-> stack, bailout |-> bailout]

\* The number of wrapper frames active in the process.
RECURSIVE ActiveFrames(_)
ActiveFrames(T) ==
    IF T = {} THEN 0
    ELSE LET t == CHOOSE u \in T : TRUE IN Len(stack[t]) + ActiveFrames(T \ {t})

CanCall(t) ==
    /\ status = "running"
    /\ t \in EngineThreads
    /\ ActiveFrames(Threads) < MaxFrames

\* ext_php_rs_zend_try_catch is called on thread t and its callback starts.
CallTryCatch(t, r0) ==
    /\ CanCall(t)
    /\ stack' = [stack EXCEPT ![t] =
                    Append(@, [fn |-> "try_catch", orig |-> zend_try(bailout[t]),
                               entry |-> bailout[t], before |-> r0, log |-> << >>])]
    /\ bailout' = [bailout EXCEPT ![t] = Len(stack[t]) + 1]
    /\ lastTry' = NoTryEvent
    /\ UNCHANGED status
    /\ TryFrame

\* ext_php_rs_zend_first_try_catch is called on thread t and its callback starts.
CallFirstTryCatch(t, r0) ==
    /\ CanCall(t)
    /\ stack' = [stack EXCEPT ![t] =
                    Append(@, [fn |-> "first_try_catch", orig |-> zend_first_try(bailout[t]),
                               entry |-> bailout[t], before |-> r0, log |-> << >>])]
    /\ bailout' = [bailout EXCEPT ![t] = Len(stack[t]) + 1]
    /\ lastTry' = NoTryEvent
    /\ UNCHANGED status
    /\ TryFrame

\* ext_php_rs_embed_callback is called on thread t, where no engine is running yet:
\* result = NULL, php_embed_init returns ok, and the callback starts.
CallEmbedCallback(t, ok) ==
    /\ CanCall(t)
    /\ stack[t] = << >>
    /\ stack' = [stack EXCEPT ![t] =
                    Append(@, [fn |-> "embed_callback", orig |-> zend_first_try(bailout[t]),
                               entry |-> bailout[t], before |-> 0,
                               log |-> PHP_EMBED_START_BLOCK(ok)])]
    /\ bailout' = [bailout EXCEPT ![t] = Len(stack[t]) + 1]
    /\ lastTry' = NoTryEvent
    /\ UNCHANGED status
    /\ TryFrame

\* The callback of the innermost wrapper on thread t returns v: the wrapper stores
\* it, ends its try block and returns (false, or the value from the embed block).
CallbackReturns(t, v) ==
    /\ status = "running"
    /\ stack[t] # << >>
    /\ LET d == Len(stack[t])
           f == stack[t][d]
       IN  /\ stack' = [stack EXCEPT ![t] = SubSeq(@, 1, d - 1)]
           /\ bailout' = [bailout EXCEPT ![t] = zend_end_try(f)]
           /\ lastTry' = [op |-> "return", thread |-> t, fn |-> f.fn, depth |-> d,
                          raisedAt |-> 0,
                          ret |-> IF f.fn \in TryWrappers THEN "false" ELSE "result",
                          value |-> v, result |-> NormalResult(f, v),
                          log |-> IF f.fn = "embed_callback"
                                  THEN PHP_EMBED_END_BLOCK(f.log) ELSE << >>,
                          frame |-> f, pre |-> Pre]
    /\ UNCHANGED status
    /\ TryFrame

\* ext_php_rs_zend_bailout is called on thread t, in the innermost callback or
\* outside every wrapper.  Without a target the engine exits the process; with
\* one, control jumps to the catch block of the frame that owns it, which restores
\* the saved target and returns (true, or the untouched result of the embed block).
Bailout(t) ==
    /\ status = "running"
    /\ t \in EngineThreads
    /\ LET k == LongjmpTarget(bailout[t])
       IN  IF k = 0
           THEN /\ status' = "exited"
                /\ lastTry' = [NoTryEvent EXCEPT !.op = "exit", !.thread = t,
                                                 !.raisedAt = Len(stack[t]), !.pre = Pre]
                /\ UNCHANGED <<stack, bailout>>
           ELSE IF k > Len(stack[t])
           THEN \* a jmp_buf of a frame that has returned: undefined behaviour
                /\ status' = "undefined"
                /\ lastTry' = [NoTryEvent EXCEPT !.op = "undefined", !.thread = t,
                                                 !.raisedAt = Len(stack[t]), !.pre = Pre]
                /\ UNCHANGED <<stack, bailout>>
           ELSE LET f == stack[t][k]
                IN  /\ stack' = [stack EXCEPT ![t] = SubSeq(@, 1, k - 1)]
                    /\ bailout' = [bailout EXCEPT ![t] = zend_end_try(f)]
                    /\ lastTry' = [op |-> "caught", thread |-> t, fn |-> f.fn, depth |-> k,
                                   raisedAt |-> Len(stack[t]),
                                   ret |-> IF f.fn \in TryWrappers THEN "true" ELSE "result",
                                   value |-> 0, result |-> CaughtResult(f),
                                   log |-> IF f.fn = "embed_callback"
                                           THEN PHP_EMBED_END_BLOCK(f.log) ELSE << >>,
                                   frame |-> f, pre |-> Pre]
                    /\ UNCHANGED status
    /\ TryFrame

NextTry ==
    \/ \E t \in Threads, r0 \in Values : CallTryCatch(t, r0)
    \/ \E t \in Threads, r0 \in Values : CallFirstTryCatch(t, r0)
    \/ \E t \in Threads, ok \in BOOLEAN : CallEmbedCallback(t, ok)
    \/ \E t \in Threads, v \in Values : CallbackReturns(t, v)
    \/ \E t \in Threads : Bailout(t)

SpecTry == InitTry /\ [][NextTry]_vars

\* The thread and the frame of the last wrapper return or bailout.
LastThread == lastTry.thread
Returned == lastTry.op \in {"return", "caught"}

\* C1: either try wrapper returns false with *result holding the callback's return
\* value (NULL included) when the callback returns, and returns true with *result
\* as it was before the call when it catches a bailout; the boolean alone tells
\* the two apart.
C1_TryCatchResult ==
    lastTry.fn \in TryWrappers =>
        /\ lastTry.op = "return" => lastTry.ret = "false" /\ lastTry.result = lastTry.value
        /\ lastTry.op = "caught" => lastTry.ret = "true" /\ lastTry.result = lastTry.frame.before
        /\ lastTry.ret \in {"true", "false"}
        /\ status = "running"

\* A wrapper whose *result was not NULL has caught a bailout.
C1_Witness ==
    /\ lastTry.fn = "first_try_catch"
    /\ lastTry.op = "caught"
    /\ lastTry.frame.before = MaxVal
    /\ lastTry.result = MaxVal

\* C5: when ext_php_rs_zend_try_catch returns, on either path, the thread's bailout
\* target is the one that was active when it was called; a bailout is caught by
\* the innermost wrapper only, whose enclosing wrappers stay active, so that a
\* bailout raised after an inner try_catch returned goes to the wrapper that was
\* the target before it.
C5_TargetRestored ==
    /\ (lastTry.fn = "try_catch" /\ Returned) =>
          /\ bailout[LastThread] = lastTry.frame.entry
          /\ lastTry.frame.entry = lastTry.depth - 1 =>
                LongjmpTarget(bailout[LastThread]) = Len(stack[LastThread])
    /\ lastTry.op = "caught" =>
          /\ lastTry.depth = lastTry.raisedAt
          /\ stack[LastThread] = SubSeq(lastTry.pre.stack[LastThread], 1, lastTry.depth - 1)
    /\ \A t \in Threads : bailout[t] \in {0, Len(stack[t])}

\* A nested ext_php_rs_zend_try_catch has caught a bailout and handed the target
\* back to the wrapper around it.
C5_Witness ==
    /\ lastTry.fn = "try_catch"
    /\ lastTry.op = "caught"
    /\ lastTry.depth = 2
    /\ lastTry.frame.entry = 1
    /\ bailout[LastThread] = 1
    /\ stack[LastThread][1].fn = "try_catch"

Max(S) == CHOOSE x \in S : \A y \in S : y <= x

\* The try wrappers active on the calling thread when the bailout was raised.
ActiveTryWrappers ==
    {k \in 1..Len(lastTry.pre.stack[LastThread]) :
        lastTry.pre.stack[LastThread][k].fn \in TryWrappers}

OtherThreadsUntouched ==
    \A u \in Threads \ {LastThread} :
        /\ stack[u] = lastTry.pre.stack[u]
        /\ bailout[u] = lastTry.pre.bailout[u]

\* C6 as stated: ext_php_rs_zend_bailout never returns; with at least one try
\* wrapper active on the thread, control resumes in the innermost one, which
\* returns true; no other thread is affected; with no target set the process ends.
C6_Original ==
    lastTry.op \in {"caught", "exit"} =>
        /\ lastTry.op = "caught" => Len(stack[LastThread]) < lastTry.raisedAt
        /\ ActiveTryWrappers # {} =>
              /\ lastTry.op = "caught"
              /\ lastTry.depth = Max(ActiveTryWrappers)
              /\ lastTry.ret = "true"
        /\ lastTry.pre.bailout[LastThread] = 0 => lastTry.op = "exit" /\ status = "exited"
        /\ OtherThreadsUntouched

\* C6 amended: ext_php_rs_zend_bailout never returns; when the calling thread's
\* bailout target is set, it belongs to the innermost wrapper or embed block
\* active on that thread, control resumes there and a try wrapper returns true;
\* no other thread is affected; when no target is set the process ends, whether
\* or not a try wrapper is active on the thread.
C6_Amended ==
    lastTry.op \in {"caught", "exit"} =>
        /\ lastTry.op = "caught" => Len(stack[LastThread]) < lastTry.raisedAt
        /\ lastTry.pre.bailout[LastThread] # 0 =>
              /\ lastTry.op = "caught"
              /\ lastTry.depth = lastTry.pre.bailout[LastThread]
              /\ lastTry.depth = Len(lastTry.pre.stack[LastThread])
              /\ lastTry.fn \in TryWrappers => lastTry.ret = "true"
              /\ status = "running"
        /\ lastTry.pre.bailout[LastThread] = 0 => lastTry.op = "exit" /\ status = "exited"
        /\ OtherThreadsUntouched

\* A nested wrapper has caught a bailout while another thread has a wrapper active.
C6_Witness ==
    /\ lastTry.op = "caught"
    /\ lastTry.ret = "true"
    /\ \E u \in Threads \ {LastThread} : stack[u] # << >> /\ bailout[u] # 0

\* C8: when ext_php_rs_zend_first_try_catch returns, on either path, no bailout
\* target is set on the thread, even if one was set when it was called; a
\* bailout raised next, inside an enclosing wrapper, ends the process instead of
\* reaching that wrapper.
C8_FirstTryDiscardsTarget ==
    /\ (lastTry.fn = "first_try_catch" /\ Returned) =>
          /\ bailout[LastThread] = 0
          /\ LongjmpTarget(bailout[LastThread]) = 0
    /\ (lastTry.op = "exit" /\ lastTry.raisedAt > 0) =>
          /\ lastTry.pre.bailout[LastThread] = 0
          /\ stack[LastThread] = lastTry.pre.stack[LastThread]

\* ext_php_rs_zend_first_try_catch has returned inside the callback of a wrapper
\* whose target was set when it was called.
C8_Witness ==
    /\ lastTry.fn = "first_try_catch"
    /\ lastTry.op = "return"
    /\ lastTry.frame.entry = 1
    /\ Len(stack[LastThread]) = 1
    /\ stack[LastThread][1].fn = "try_catch"
    /\ bailout[LastThread] = 0

\* C9: ext_php_rs_embed_callback runs embed initialisation, the callback once and
\* embed shutdown once, in this order, whatever the initialisation reported; it
\* returns the callback's value when the callback returns, and NULL when a bailout
\* reaches the embed block.
C9_EmbedCallback ==
    lastTry.fn = "embed_callback" =>
        /\ Len(lastTry.log) = 3
        /\ lastTry.log[1] \in {"php_embed_init SUCCESS", "php_embed_init FAILURE"}
        /\ lastTry.log[2] = "callback"
        /\ lastTry.log[3] = "php_embed_shutdown"
        /\ lastTry.ret = "result"
        /\ lastTry.op = "return" => lastTry.result = lastTry.value
        /\ lastTry.op = "caught" => lastTry.result = 0
        /\ status = "running"
        /\ stack[LastThread] = << >>

\* The embed block has caught a bailout after a failed initialisation.
C9_Witness ==
    /\ lastTry.fn = "embed_callback"
    /\ lastTry.op = "caught"
    /\ lastTry.log[1] = "php_embed_init FAILURE"
    /\ lastTry.result = 0

====
